---------------------------- MODULE Spec2Model ----------------------------
(***************************************************************************)
(* Spice-dispensing carousel: the UI node (Final_Project_Control_Box.py)   *)
(* and the motor node (Final_Project_Sender_Code_V7.py).                   *)
(*                                                                         *)
(* Numbers.  Every float of the program that the model handles is a        *)
(* decimal with at most four fractional digits (weights and distances      *)
(* travel as "{:.4f}", targets and humidity as "{:.2f}", the amount moves  *)
(* in steps of 0.5 between 0.1 and 10.0).  The model keeps them as         *)
(* integers counted in 1/10000 (FIX): 5.0 g is 50000.  Binary rounding of  *)
(* the last bit of a double is below this resolution and is not modelled.  *)
(*                                                                         *)
(* Button levels are the pin values: 1 = released, 0 = pressed.            *)
(***************************************************************************)
EXTENDS Integers, Sequences, FiniteSets, TLC

VARIABLES
    \* ---- UI node (Final_Project_Control_Box.py) ----
    state,                  \* "HOME" | "SPICE" | "AMOUNT" | "DISPENSING"
    spice_idx,              \* selected spice, index into SPICES
    target_g,               \* selected amount (FIX)
    prev,                   \* prev_up, prev_down, prev_sel, prev_back
    current_weight_g,       \* last weight received (FIX)
    current_distance_cm,    \* last distance received (FIX)
    current_humidity,       \* <<last humidity received (FIX)>>, or None
    dispense_target_g,      \* target of the dispense in progress (FIX)
    dispense_spice_id,      \* spice of the dispense in progress
    dispense_done_counter,  \* consecutive ticks at or above the threshold
    \* ---- what the last UI tick saw and did (observation) ----
    rx,                     \* the payload irecv returned to the last poll
    pins,                   \* the four pin values the last tick sampled
    events,                 \* the dict read_events() returned
    sent,                   \* payloads handed to esp.send, in order
    cues,                   \* user feedback performed, in order
    \* ---- motor node (Final_Project_Sender_Code_V7.py) ----
    m_pc,                   \* "poll" | "loop" | "telemetry": place in the main loop
    current_slot,           \* container the carousel is under
    target_weight,          \* grams requested from the UI (FIX)
    spice_id,               \* spice id last received
    sp_id,                  \* motor_sequence: its slot argument, reduced
    tar_wt,                 \* motor_sequence: its target argument (FIX)
    weight_g_local,         \* motor_sequence: last load-cell weight (FIX)
    dht_humidity,           \* humidity of the last humid_temp.measure()
    \* ---- what the last motor step saw and did (observation) ----
    m_rx,                   \* the payload irecv returned to the last poll
    m_sent,                 \* payloads handed to e.send, in order
    s1_steps,               \* signed steps given to the carousel stepper
    s2_turns,               \* dispenser advances made
    \* ---- history ----
    target_since_done,      \* a target was decoded since the last sequence ended
    last_target,            \* <<the target most recently decoded>>, or None
    s1_net,                 \* sum of all signed carousel steps since start-up
    running,                \* dispense sequences started and not yet ended
    \* ---- the link and the fate of the UI node's latest request ----
    to_motor,               \* payloads on their way to the motor node, oldest first
    to_ui,                  \* payloads on their way to the UI node, oldest first
    id_pos,                 \* place in to_motor of the latest request's id (0: not there)
    req_seq                 \* its sequence: "none" | "running" | "ended"

ui_vars == <<state, spice_idx, target_g, prev, current_weight_g,
             current_distance_cm, current_humidity, dispense_target_g,
             dispense_spice_id, dispense_done_counter, rx, pins, events, sent, cues>>

motor_vars == <<m_pc, current_slot, target_weight, spice_id, sp_id, tar_wt,
                weight_g_local, dht_humidity, m_rx, m_sent, s1_steps, s2_turns,
                target_since_done, last_target, s1_net, running>>

link_vars == <<to_motor, to_ui, id_pos, req_seq>>

vars == <<ui_vars, motor_vars, link_vars>>

-----------------------------------------------------------------------------
(* Program constants *)

FIX == 10000
NumSpices == 12
g_step == 5000
g_min == 1000
g_max == 100000
CUP_DIST_THRESHOLD_CM == 100000
DISPENSE_TOLERANCE_G == 1000
DISPENSE_DONE_LOOPS == 20
InitialTarget == 50000
SLOTS == 12
STEPS_PER_SLOT == 128

\* current_humidity is <<>> for None ("no data yet") and <<h>> for a value.
None == <<>>

Min(a, b) == IF a <= b THEN a ELSE b
Max(a, b) == IF a >= b THEN a ELSE b

Pow10(n) == IF n = 0 THEN 1 ELSE IF n = 1 THEN 10 ELSE IF n = 2 THEN 100
            ELSE IF n = 3 THEN 1000 ELSE 10000

-----------------------------------------------------------------------------
(* Telemetry codec.  A payload is the text <number><suffix>.  The number   *)
(* text is kept as its digits: mant / 10^dec written with exactly dec      *)
(* fractional digits (dec = 0: no decimal point); ok = FALSE is a number   *)
(* text float() rejects, such as "abc".                                    *)

Payload(mant, dec, suffix) == [ok |-> TRUE, mant |-> mant, dec |-> dec, suffix |-> suffix]
BadPayload(suffix) == [ok |-> FALSE, mant |-> 0, dec |-> 0, suffix |-> suffix]
\* irecv(0) with nothing pending: msg is None.
NoMsg == [ok |-> FALSE, mant |-> 0, dec |-> 0, suffix |-> "<nothing pending>"]
\* The greetings sent at start-up, "Starting UI..." and "Starting...": text
\* that ends in none of the suffixes.
Greeting == [ok |-> FALSE, mant |-> 0, dec |-> 0, suffix |-> "..."]

\* "{:.<dec>f}".format(x): x (FIX) rounded to dec fractional digits.
RoundDiv(x, q) == IF x >= 0 THEN (2 * x + q) \div (2 * q)
                  ELSE -((2 * (-x) + q) \div (2 * q))
FormatFixed(x, dec) == RoundDiv(x, Pow10(4 - dec))

EncodeTarget(amount_g) == Payload(FormatFixed(amount_g, 2), 2, "target")
EncodeId(id) == Payload(id, 0, "id")
EncodeWeight(w) == Payload(FormatFixed(w, 4), 4, "weight")
EncodeDist(d) == Payload(FormatFixed(d, 4), 4, "dist")
EncodeHum(h) == Payload(FormatFixed(h, 2), 2, "hum")

\* float(value_str): the value (FIX) of a well-formed number text.
ParseFloat(p) == p.mant * Pow10(4 - p.dec)
FloatParses(p) == p.ok
\* int(value_str): only digits, no decimal point.
IntParses_Lenient(p) == p.ok
IntParses(p) == p.ok /\ p.dec = 0
ParseInt(p) == p.mant

-----------------------------------------------------------------------------
(* UI node *)

Released == 1
Pressed == 0
Levels == [up : {0, 1}, down : {0, 1}, sel : {0, 1}, back : {0, 1}]
AllReleased == [up |-> 1, down |-> 1, sel |-> 1, back |-> 1]
NoEvents == [up |-> FALSE, down |-> FALSE, sel |-> FALSE, back |-> FALSE]

\* read_events(): p the previous sample of a pin, c the current one.
\* UP/DOWN/SEL are edge-detected (1 -> 0), BACK is level-detected.
EdgeEvent_Level(p, c) == c = 0
EdgeEvent(p, c) == p = 1 /\ c = 0
LevelEvent_Edge(p, c) == p = 1 /\ c = 0
LevelEvent(p, c) == c = 0
ReadEvents(p, c) ==
    [up   |-> EdgeEvent(p.up, c.up),
     down |-> EdgeEvent(p.down, c.down),
     sel  |-> EdgeEvent(p.sel, c.sel),
     back |-> LevelEvent(p.back, c.back)]

\* poll_espnow(): the sensor globals after one poll that returned msg.
Snapshot == [w |-> current_weight_g, d |-> current_distance_cm, h |-> current_humidity]
PollEspnow_ZeroOnError(msg) ==
    IF msg = NoMsg THEN Snapshot
    ELSE IF msg.suffix = "weight" THEN
        [Snapshot EXCEPT !.w = IF FloatParses(msg) THEN ParseFloat(msg) ELSE 0]
    ELSE IF msg.suffix = "dist" THEN
        [Snapshot EXCEPT !.d = IF FloatParses(msg) THEN ParseFloat(msg) ELSE 0]
    ELSE IF msg.suffix = "hum" THEN
        [Snapshot EXCEPT !.h = IF FloatParses(msg) THEN <<ParseFloat(msg)>> ELSE None]
    ELSE Snapshot
PollEspnow(msg) ==
    IF msg = NoMsg THEN Snapshot
    ELSE IF msg.suffix = "weight" THEN
        IF FloatParses(msg) THEN [Snapshot EXCEPT !.w = ParseFloat(msg)] ELSE Snapshot
    ELSE IF msg.suffix = "dist" THEN
        IF FloatParses(msg) THEN [Snapshot EXCEPT !.d = ParseFloat(msg)] ELSE Snapshot
    ELSE IF msg.suffix = "hum" THEN
        IF FloatParses(msg) THEN [Snapshot EXCEPT !.h = <<ParseFloat(msg)>>] ELSE Snapshot
    ELSE Snapshot

\* get_cup_present() on a distance reading.
CupPresent_Inclusive(d) == d > 0 /\ d <= CUP_DIST_THRESHOLD_CM
CupPresent(d) == d > 0 /\ d < CUP_DIST_THRESHOLD_CM

\* go_back()
GoBack(s) == IF s = "AMOUNT" THEN "SPICE" ELSE IF s = "SPICE" THEN "HOME" ELSE s

\* BACK in HOME / SPICE / AMOUNT, handled before the state branches.
AfterBack(s, ev) ==
    IF s \in {"HOME", "SPICE", "AMOUNT"} /\ ev.back THEN GoBack(s) ELSE s

\* The two index moves of the SPICE branch.
SpiceUp_NoWrap(i) == i - 1
SpiceUp(i) == (i - 1) % NumSpices
SpiceDown(i) == (i + 1) % NumSpices
\* spice_idx after the branch of state st has handled ev.
SpiceIdxAfter(st, ev, i) ==
    IF st = "SPICE"
    THEN LET i1 == IF ev.up THEN SpiceUp(i) ELSE i
         IN  IF ev.down THEN SpiceDown(i1) ELSE i1
    ELSE i

\* The two amount moves of the AMOUNT branch.
AmountUp(t) == Min(g_max, t + g_step)
AmountDown_NoClamp(t) == t - g_step
AmountDown(t) == Max(g_min, t - g_step)
\* target_g after the branch of state st has handled ev.
TargetAfter_AnyState(st, ev, t) ==
    IF st \in {"AMOUNT", "DISPENSING"}
    THEN LET t1 == IF ev.up THEN AmountUp(t) ELSE t
         IN  IF ev.down THEN AmountDown(t1) ELSE t1
    ELSE t
TargetAfter(st, ev, t) ==
    IF st = "AMOUNT"
    THEN LET t1 == IF ev.up THEN AmountUp(t) ELSE t
         IN  IF ev.down THEN AmountDown(t1) ELSE t1
    ELSE t

\* start_dispense(): the payloads it sends, in order.  esp.send is taken to
\* hand its payload to the link and return (the link may still lose it).
StartDispenseSends_IdFirst(id, amount_g) == <<EncodeId(id), EncodeTarget(amount_g)>>
StartDispenseSends(id, amount_g) == <<EncodeTarget(amount_g), EncodeId(id)>>

\* The stability counter after one DISPENSING tick that sees weight w.
DoneCounterNext_NoReset(cnt, w, tgt) ==
    IF w >= tgt - DISPENSE_TOLERANCE_G THEN cnt + 1 ELSE cnt
DoneCounterNext(cnt, w, tgt) ==
    IF w >= tgt - DISPENSE_TOLERANCE_G THEN cnt + 1 ELSE 0
DispenseDone_Early(cnt) == cnt >= 1
DispenseDone(cnt) == cnt >= DISPENSE_DONE_LOOPS

\* One iteration of the main loop: poll returned msg, the pins read cur.
UITick(msg, cur) ==
    LET snap == PollEspnow(msg)
        ev == ReadEvents(prev, cur)
        anyEv == ev.up \/ ev.down \/ ev.sel \/ ev.back
        click == IF state # "DISPENSING" /\ anyEv THEN <<"click">> ELSE <<>>
        \* the state whose branch of the if/elif chain runs
        st1 == AfterBack(state, ev)
        idx2 == SpiceIdxAfter(st1, ev, spice_idx)
        t2 == TargetAfter(st1, ev, target_g)
        starts == st1 = "AMOUNT" /\ ev.sel /\ CupPresent(snap.d)
        nocup == st1 = "AMOUNT" /\ ev.sel /\ ~CupPresent(snap.d)
        cnt1 == DoneCounterNext(dispense_done_counter, snap.w, dispense_target_g)
        cancel == st1 = "DISPENSING" /\ ev.back
        done == st1 = "DISPENSING" /\ DispenseDone(cnt1)
    IN  /\ rx' = msg
        /\ current_weight_g' = snap.w
        /\ current_distance_cm' = snap.d
        /\ current_humidity' = snap.h
        /\ prev' = cur
        /\ pins' = cur
        /\ events' = ev
        /\ spice_idx' = idx2
        /\ target_g' = t2
        /\ state' = IF st1 = "HOME" THEN (IF ev.sel THEN "SPICE" ELSE "HOME")
                    ELSE IF st1 = "SPICE" THEN (IF ev.sel THEN "AMOUNT" ELSE "SPICE")
                    ELSE IF st1 = "AMOUNT" THEN (IF starts THEN "DISPENSING" ELSE "AMOUNT")
                    ELSE (IF cancel \/ done THEN "HOME" ELSE "DISPENSING")
        /\ dispense_target_g' = IF starts THEN t2 ELSE dispense_target_g
        /\ dispense_spice_id' = IF starts THEN spice_idx ELSE dispense_spice_id
        /\ dispense_done_counter' = IF starts THEN 0
                                    ELSE IF st1 = "DISPENSING" THEN cnt1
                                    ELSE dispense_done_counter
        /\ sent' = IF starts THEN StartDispenseSends(spice_idx, t2) ELSE <<>>
        /\ cues' = click
                   \o (IF nocup THEN <<"flash_no_cup", "error_beep">> ELSE <<>>)
                   \o (IF cancel THEN <<"flash_canceled">> ELSE <<>>)
                   \o (IF done THEN <<"finish">> ELSE <<>>)

UIInit ==
    /\ state = "HOME"
    /\ spice_idx = 0
    /\ target_g = InitialTarget
    /\ prev \in Levels
    /\ pins = prev
    /\ rx = NoMsg
    /\ current_weight_g = 0
    /\ current_distance_cm = 0
    /\ current_humidity = None
    /\ dispense_target_g = 0
    /\ dispense_spice_id = 0
    /\ dispense_done_counter = 0
    /\ events = NoEvents
    /\ sent = <<Greeting>>
    /\ cues = <<>>

-----------------------------------------------------------------------------
(* Motor node.  Its main loop blocks inside motor_sequence for as long as  *)
(* the dispense loop runs, so an iteration is modelled in steps: the poll  *)
(* with command dispatch and carousel alignment (up to the first test of   *)
(* the while loop), one test-and-body of the while loop, and the telemetry *)
(* that ends the iteration.                                                *)

\* The command a polled payload decodes to: "target", "id" or "none"
\* (nothing pending, no known suffix, or a number text that does not parse).
DecodesTarget(msg) == msg # NoMsg /\ msg.suffix = "target" /\ FloatParses(msg)
DecodesId(msg) == msg # NoMsg /\ msg.suffix = "id" /\ IntParses(msg)

\* Whether the dispatcher calls motor_sequence for this payload; targetSeen
\* (a target was decoded since the last sequence ended) is not consulted.
StartsSequence_Paired(msg, targetSeen) == DecodesId(msg) /\ targetSeen
StartsSequence(msg, targetSeen) == DecodesId(msg)

\* The pending target weight after the dispatcher has handled msg.
DecodedTarget_Cleared(msg, pending) ==
    IF DecodesTarget(msg) THEN ParseFloat(msg) ELSE IF DecodesId(msg) THEN 0 ELSE pending
DecodedTarget(msg, pending) ==
    IF DecodesTarget(msg) THEN ParseFloat(msg) ELSE pending

\* The place in the main loop where the link is polled: the top of an
\* iteration, which a running motor_sequence keeps the loop from reaching.
PollsLink_Always(pc) == pc \in {"poll", "loop"}
PollsLink(pc) == pc = "poll"

\* motor_sequence: sp_id = int(sp_id) % SLOTS
RequestedSlot_Raw(id) == id
RequestedSlot(id) == id % SLOTS

\* motor_sequence, part 1: the signed steps for the move from slot cur to
\* slot req (0: already there).
CarouselSteps_Shortest(cur, req) ==
    LET diff == (req - cur) % SLOTS
    IN  IF diff = 0 THEN 0
        ELSE IF 2 * diff > SLOTS THEN -((SLOTS - diff) * STEPS_PER_SLOT)
        ELSE diff * STEPS_PER_SLOT
CarouselSteps(cur, req) ==
    LET diff == req - cur
    IN  IF diff = 0 THEN 0
        ELSE IF diff < 0 THEN -((-diff) * STEPS_PER_SLOT)
        ELSE diff * STEPS_PER_SLOT

\* The while test of the dispense loop.
KeepsDispensing_Inclusive(w, tgt) == w <= tgt
KeepsDispensing_UntilEqual(w, tgt) == w # tgt
KeepsDispensing(w, tgt) == w < tgt

\* Poll and dispatch; w is the load-cell weight motor_sequence reads first.
MotorPoll(msg, w) ==
    /\ PollsLink(m_pc)
    /\ m_rx' = msg
    /\ target_weight' = DecodedTarget(msg, target_weight)
    /\ spice_id' = IF DecodesId(msg) THEN ParseInt(msg) ELSE spice_id
    /\ target_since_done' = (target_since_done \/ DecodesTarget(msg))
    /\ last_target' = IF DecodesTarget(msg) THEN <<ParseFloat(msg)>> ELSE last_target
    /\ IF StartsSequence(msg, target_since_done)
       THEN /\ sp_id' = RequestedSlot(ParseInt(msg))
            /\ tar_wt' = target_weight
            /\ s1_steps' = CarouselSteps(current_slot, RequestedSlot(ParseInt(msg)))
            /\ current_slot' = RequestedSlot(ParseInt(msg))
            /\ weight_g_local' = w
            /\ running' = running + 1
            /\ m_pc' = "loop"
       ELSE /\ UNCHANGED <<sp_id, tar_wt, current_slot, weight_g_local, running>>
            /\ s1_steps' = 0
            /\ m_pc' = "telemetry"
    /\ s1_net' = s1_net + s1_steps'
    /\ m_sent' = <<>>
    /\ s2_turns' = 0
    /\ UNCHANGED dht_humidity

\* One test of the while loop and, if it passes, one body; w is the weight
\* the body reads.
MotorLoop(w) ==
    /\ m_pc = "loop"
    /\ IF KeepsDispensing(weight_g_local, tar_wt)
       THEN /\ s2_turns' = 1
            /\ weight_g_local' = w
            /\ m_sent' = <<EncodeWeight(w), EncodeHum(dht_humidity)>>
            /\ m_pc' = "loop"
            /\ UNCHANGED <<target_since_done, running>>
       ELSE /\ s2_turns' = 0
            /\ m_sent' = <<>>
            /\ m_pc' = "telemetry"
            /\ target_since_done' = FALSE
            /\ running' = running - 1
            /\ UNCHANGED weight_g_local
    /\ s1_steps' = 0
    /\ UNCHANGED <<current_slot, target_weight, spice_id, sp_id, tar_wt, dht_humidity,
                   m_rx, last_target, s1_net>>

\* The sensor reads and the three sends that end an iteration.
MotorTelemetry(w, d, h) ==
    /\ m_pc = "telemetry"
    /\ dht_humidity' = h
    /\ m_sent' = <<EncodeWeight(w), EncodeDist(d), EncodeHum(h)>>
    /\ m_pc' = "poll"
    /\ s1_steps' = 0
    /\ s2_turns' = 0
    /\ UNCHANGED <<current_slot, target_weight, spice_id, sp_id, tar_wt,
                   weight_g_local, m_rx, target_since_done, last_target, s1_net,
                   running>>

MotorInit ==
    /\ m_pc = "poll"
    /\ current_slot = 0
    /\ target_weight = 0
    /\ spice_id = 0
    /\ sp_id = 0
    /\ tar_wt = 0
    /\ weight_g_local = 0
    /\ dht_humidity = 0
    /\ m_rx = NoMsg
    /\ m_sent = <<Greeting>>
    /\ s1_steps = 0
    /\ s2_turns = 0
    /\ target_since_done = FALSE
    /\ last_target = None
    /\ s1_net = 0
    /\ running = 0

\* The link: nothing in flight, no request made yet.
LinkInit ==
    /\ to_motor = <<>>
    /\ to_ui = <<>>
    /\ id_pos = 0
    /\ req_seq = "none"

Init == UIInit /\ MotorInit /\ LinkInit

-----------------------------------------------------------------------------
(* The UI node alone.  Three environments drive the same UITick; each      *)
(* draws the pin samples from all sixteen combinations.                    *)

\* SpecNav: no telemetry arrives (the cup is never seen), the user walks
\* the whole menu.
NavTick == \E cur \in Levels : UITick(NoMsg, cur) /\ UNCHANGED <<motor_vars, link_vars>>

NextNav == NavTick

SpecNav == Init /\ [][NextNav]_vars

\* Spec: distance telemetry arrives, dispenses are started and cancelled.
\* The user keeps the selection within NavWindow steps of the initial one
\* and leaves it alone once a dispense has been started.
NavWindow == 2
WindowSpices == {k % NumSpices : k \in (0 - NavWindow)..NavWindow}
WindowTargets == {InitialTarget + k * g_step : k \in (0 - NavWindow)..NavWindow}
SelectionKept ==
    /\ spice_idx' \in WindowSpices
    /\ target_g' \in WindowTargets
    /\ dispense_target_g # 0 => spice_idx' = spice_idx /\ target_g' = target_g

\* Distances 9.9999 and 10.0000 (and 0.0, the initial value).
DistMsgs == {EncodeDist(99999), EncodeDist(100000)}

QuietTick ==
    \E cur \in Levels : UITick(NoMsg, cur) /\ SelectionKept /\ UNCHANGED <<motor_vars, link_vars>>
DistTick ==
    \E m \in DistMsgs, cur \in Levels :
        UITick(m, cur) /\ SelectionKept /\ UNCHANGED <<motor_vars, link_vars>>

Next == QuietTick \/ DistTick

Spec == Init /\ [][Next]_vars

\* SpecDisp: weight telemetry arrives around the completion threshold of
\* the initial amount; the user presses up and down only while a dispense
\* is in progress.
WeightBelow == InitialTarget - DISPENSE_TOLERANCE_G - 1
WeightAt == InitialTarget - DISPENSE_TOLERANCE_G
DispMsgs == {EncodeDist(50000), EncodeWeight(WeightBelow), EncodeWeight(WeightAt),
             EncodeHum(552300)}
UpDownOnlyDispensing(cur) ==
    state = "DISPENSING" \/ (~ReadEvents(prev, cur).up /\ ~ReadEvents(prev, cur).down)

DispQuietTick ==
    \E cur \in Levels :
        UpDownOnlyDispensing(cur) /\ UITick(NoMsg, cur) /\ UNCHANGED <<motor_vars, link_vars>>
DispRecvTick ==
    \E m \in DispMsgs, cur \in Levels :
        UpDownOnlyDispensing(cur) /\ UITick(m, cur) /\ UNCHANGED <<motor_vars, link_vars>>

NextDisp == DispQuietTick \/ DispRecvTick

SpecDisp == Init /\ [][NextDisp]_vars

\* SpecTelemetry: well-formed and malformed payloads arrive in any order
\* ("1.2345weight", "5.0000dist", "55.23hum", "abcweight", "abcdist",
\* "abchum", "12.3xyz", "5.00target"); the user presses select and back only.
TelemetryMsgs ==
    {EncodeWeight(12345), EncodeDist(50000), EncodeHum(552300),
     BadPayload("weight"), BadPayload("dist"), BadPayload("hum"),
     Payload(123, 1, "xyz"), EncodeTarget(InitialTarget)}
SelBackOnly(cur) == cur.up = Released /\ cur.down = Released

TelQuietTick ==
    \E cur \in Levels :
        SelBackOnly(cur) /\ UITick(NoMsg, cur) /\ UNCHANGED <<motor_vars, link_vars>>
TelRecvTick ==
    \E m \in TelemetryMsgs, cur \in Levels :
        SelBackOnly(cur) /\ UITick(m, cur) /\ UNCHANGED <<motor_vars, link_vars>>

NextTelemetry == TelQuietTick \/ TelRecvTick

SpecTelemetry == Init /\ [][NextTelemetry]_vars

-----------------------------------------------------------------------------
(* The motor node alone: any command may be pending at a poll, and the     *)
(* sensors return any of a few readings.                                   *)

\* Load-cell weights (FIX): negative, zero, half the initial amount, the
\* initial amount.
WeightReadings == {0 - 5000, 0, 25000, 50000}
\* A distance of 5.0 cm and a humidity of 55 %.
OtherReadings == [d |-> 50000, h |-> 550000]
\* Pending payloads: targets, ids inside and outside [0, 12), payloads
\* whose number text does not parse ("3.00id", "abcid", "abctarget") and
\* payloads with another suffix ("Starting UI...", "12.3xyz").
MotorMsgs ==
    {EncodeTarget(InitialTarget), EncodeTarget(25000),
     EncodeId(0), EncodeId(2), EncodeId(11), EncodeId(14), EncodeId(0 - 1),
     Payload(300, 2, "id"), BadPayload("id"), BadPayload("target"), Greeting,
     Payload(123, 1, "xyz")}

MPollIdle == \E w \in WeightReadings : MotorPoll(NoMsg, w) /\ UNCHANGED <<ui_vars, link_vars>>
MPollRecv ==
    \E msg \in MotorMsgs, w \in WeightReadings : MotorPoll(msg, w) /\ UNCHANGED <<ui_vars, link_vars>>
MLoop == \E w \in WeightReadings : MotorLoop(w) /\ UNCHANGED <<ui_vars, link_vars>>
MTelemetry ==
    \E w \in WeightReadings :
        MotorTelemetry(w, OtherReadings.d, OtherReadings.h) /\ UNCHANGED <<ui_vars, link_vars>>

NextMotor == MPollIdle \/ MPollRecv \/ MLoop \/ MTelemetry

SpecMotor == Init /\ [][NextMotor]_vars

-----------------------------------------------------------------------------
(* Both nodes and the link between them.  A payload handed to send is      *)
(* lost or joins the payloads on their way to the peer; it is also lost    *)
(* when the peer already has MaxToMotor (MaxToUi) payloads waiting.  A     *)
(* poll returns the oldest one, or nothing when none has arrived yet.      *)
(* The two main loops run at their own pace, so their steps interleave in  *)
(* any order.                                                              *)

MaxToMotor == 2
MaxToUi == 1

\* The payloads on their way after msgs were sent in order; keep[i] tells
\* whether the link carries msgs[i].
RECURSIVE Carried(_, _, _, _, _)
Carried(q, msgs, keep, cap, i) ==
    IF i > Len(msgs) THEN q
    ELSE Carried(IF keep[i] /\ Len(q) < cap THEN Append(q, msgs[i]) ELSE q,
                 msgs, keep, cap, i + 1)

\* A UI tick on the link: the poll returns msg, and a request that
\* start_dispense sends replaces the latest one.  The user presses select
\* only, and no more once a dispense has been started.
SysUITick(msg, cur) ==
    /\ cur.up = Released /\ cur.down = Released /\ cur.back = Released
    /\ dispense_target_g # 0 => cur.sel = Released
    /\ UITick(msg, cur)
    /\ IF sent' = <<>>
       THEN UNCHANGED <<to_motor, id_pos, req_seq>>
       ELSE \E keep \in [1..2 -> BOOLEAN] :
                LET q1 == Carried(to_motor, <<sent'[1]>>, keep, MaxToMotor, 1)
                    idIn == keep[2] /\ Len(q1) < MaxToMotor
                IN  /\ to_motor' = Carried(to_motor, sent', keep, MaxToMotor, 1)
                    /\ id_pos' = IF idIn THEN Len(q1) + 1 ELSE 0
                    /\ req_seq' = "none"
    /\ UNCHANGED motor_vars

SysUIQuiet == \E cur \in Levels : SysUITick(NoMsg, cur) /\ UNCHANGED to_ui
SysUIRecv ==
    /\ to_ui # <<>>
    /\ \E cur \in Levels : SysUITick(Head(to_ui), cur)
    /\ to_ui' = Tail(to_ui)

\* Load-cell readings on the link: empty, 4.95 g (within the UI node's tolerance
\* of a 5.0 g target, below the target) and 5.0 g.
SysWeights == {0, 49500, 50000}

\* The telemetry a motor step sends, as far as the link carries it.
SysTelemetry ==
    \E keep \in [1..3 -> BOOLEAN] : to_ui' = Carried(to_ui, m_sent', keep, MaxToUi, 1)

SysMotorIdle ==
    /\ \E w \in SysWeights : MotorPoll(NoMsg, w)
    /\ UNCHANGED <<ui_vars, link_vars>>
SysMotorRecv ==
    /\ to_motor # <<>>
    /\ \E w \in SysWeights : MotorPoll(Head(to_motor), w)
    /\ to_motor' = Tail(to_motor)
    /\ id_pos' = IF id_pos > 0 THEN id_pos - 1 ELSE 0
    /\ req_seq' = IF id_pos = 1 /\ m_pc' = "loop" THEN "running" ELSE req_seq
    /\ UNCHANGED <<ui_vars, to_ui>>
SysMotorLoop ==
    /\ \E w \in SysWeights : MotorLoop(w)
    /\ SysTelemetry
    /\ req_seq' = IF req_seq = "running" /\ m_pc' = "telemetry" THEN "ended" ELSE req_seq
    /\ UNCHANGED <<ui_vars, to_motor, id_pos>>
SysMotorTelemetry ==
    /\ \E w \in SysWeights : MotorTelemetry(w, OtherReadings.d, OtherReadings.h)
    /\ SysTelemetry
    /\ UNCHANGED <<ui_vars, to_motor, id_pos, req_seq>>

NextSys ==
    \/ SysUIQuiet \/ SysUIRecv
    \/ SysMotorIdle \/ SysMotorRecv \/ SysMotorLoop \/ SysMotorTelemetry

SpecSys == Init /\ [][NextSys]_vars

\* SpecInbox: the motor node and its inbound link, on which the commands
\* "5.00target", "2id" and "11id" arrive at any time, also while a
\* dispense sequence is running.  Nothing listens to its telemetry.
InboxCmds == {EncodeTarget(InitialTarget), EncodeId(2), EncodeId(11)}
CmdArrives ==
    /\ Len(to_motor) < MaxToMotor
    /\ \E m \in InboxCmds : to_motor' = Append(to_motor, m)
    /\ UNCHANGED <<ui_vars, motor_vars, to_ui, id_pos, req_seq>>

InboxLoop ==
    /\ \E w \in SysWeights : MotorLoop(w)
    /\ UNCHANGED <<ui_vars, link_vars>>
InboxTelemetry ==
    /\ \E w \in SysWeights : MotorTelemetry(w, OtherReadings.d, OtherReadings.h)
    /\ UNCHANGED <<ui_vars, link_vars>>

NextInbox ==
    \/ CmdArrives
    \/ SysMotorIdle \/ SysMotorRecv \/ InboxLoop \/ InboxTelemetry

SpecInbox == Init /\ [][NextInbox]_vars

-----------------------------------------------------------------------------
(* Claims about the UI node.                                               *)
(*                                                                         *)
(* Every step of these specifications is one tick; an unprimed variable is *)
(* its value before the tick and a primed one its value after it.  The     *)
(* pins sampled by the previous tick are pins, those sampled by this tick  *)
(* pins', and events' are the events this tick raised.                     *)
(*                                                                         *)
(* The main loop handles BACK first (go_back) and then runs the branch of  *)
(* the resulting state, so an up, down or select event "occurs in" state S *)
(* when the tick starts in S and raises no back event: then, and only      *)
(* then, the branch of S handles it.  What the other ticks do is C8's      *)
(* subject.                                                                *)

HandledIn(s) == state = s /\ ~events'.back
CupSeen == current_distance_cm' > 0 /\ current_distance_cm' < 10 * FIX
Cued(c) == \E i \in 1..Len(cues) : cues[i] = c
CuedNext(c) == \E i \in 1..Len(cues') : cues'[i] = c

C2_SelectWithoutCupRefused ==
    [][ (HandledIn("AMOUNT") /\ events'.sel /\ ~CupSeen) =>
            /\ state' = "AMOUNT"
            /\ sent' = <<>>
            /\ UNCHANGED <<dispense_target_g, dispense_spice_id, dispense_done_counter>>
            /\ CuedNext("error_beep") ]_vars

\* C2 witness: the refusal at a distance of exactly 10.0, after an earlier
\* dispense has set the progress fields.
C2_Witness ==
    /\ state = "AMOUNT" /\ events.sel /\ ~events.back
    /\ current_distance_cm = 10 * FIX
    /\ Cued("error_beep") /\ sent = <<>>
    /\ dispense_target_g # 0

\* C3: a DISPENSING tick whose weight is below target - 0.1 resets the
\* stability counter and does not complete; one at or above it counts one
\* more; the node completes (finish feedback, state HOME) exactly on the
\* tick that makes it DISPENSE_DONE_LOOPS consecutive ticks; the counter
\* starts from 0 when the dispense starts, and nothing completes outside
\* DISPENSING.
C3_CompletesOnTwentiethStableTick ==
    [][ LET qualifies == current_weight_g' >= dispense_target_g - FIX \div 10
        IN  /\ state = "DISPENSING" =>
                /\ ~qualifies => dispense_done_counter' = 0
                /\ qualifies => dispense_done_counter' = dispense_done_counter + 1
                /\ CuedNext("finish") <=> (qualifies /\ dispense_done_counter = 19)
                /\ CuedNext("finish") => state' = "HOME"
                /\ dispense_done_counter < 20
            /\ state # "DISPENSING" => ~CuedNext("finish")
            /\ (state # "DISPENSING" /\ state' = "DISPENSING") =>
                    dispense_done_counter' = 0 ]_vars

\* C3 witness: the completing tick, counter at 20.
C3_Witness ==
    /\ Cued("finish") /\ state = "HOME"
    /\ dispense_done_counter = 20
    /\ current_weight_g = dispense_target_g - FIX \div 10

\* C4 as claimed: target_grams is within [0.1, 10.0] and differs from its
\* starting value 5.0 by a multiple of 0.5.
C4_OnStartingGrid ==
    /\ target_g >= FIX \div 10 /\ target_g <= 10 * FIX
    /\ (target_g - 5 * FIX) % (FIX \div 2) = 0

\* C4 amended: target_grams is within [0.1, 10.0] and lies on the 0.5 grid
\* of one of the two bounds: a multiple of 0.5 away from 10.0 (the grid of
\* the starting value) or from 0.1.
C4_OnGridOfABound ==
    /\ target_g >= FIX \div 10 /\ target_g <= 10 * FIX
    /\ \/ (10 * FIX - target_g) % (FIX \div 2) = 0
       \/ (target_g - FIX \div 10) % (FIX \div 2) = 0

\* C4 witness: 0.6, reached by an up event from the lower bound 0.1.
C4_Witness == target_g = 6000 /\ state = "AMOUNT" /\ events.up

\* C5: the SPICE branch moves the index by -1 for an up event and by +1 for
\* a down event, modulo 12 (0 wraps to 11, 11 wraps to 0; both events in one
\* tick are applied in that order), and the index is always in [0, 12).
C5_SpiceIndexWraps ==
    /\ [][ HandledIn("SPICE") =>
            LET i1 == IF events'.up
                      THEN (IF spice_idx = 0 THEN 11 ELSE spice_idx - 1)
                      ELSE spice_idx
                i2 == IF events'.down
                      THEN (IF i1 = 11 THEN 0 ELSE i1 + 1)
                      ELSE i1
            IN  spice_idx' = i2 ]_vars
    /\ [](spice_idx \in 0..11)

\* C5 witness: an up event has just wrapped the index from 0 to 11.
C5_Witness ==
    /\ state = "SPICE" /\ events.up /\ ~events.down /\ ~events.back
    /\ spice_idx = 11

\* C6: up, down and select events are raised exactly on a tick whose sample
\* is pressed while the previous sample was released.
C6_EdgeEvents ==
    [][ /\ events'.up   <=> (pins.up = Released /\ pins'.up = Pressed)
        /\ events'.down <=> (pins.down = Released /\ pins'.down = Pressed)
        /\ events'.sel  <=> (pins.sel = Released /\ pins'.sel = Pressed) ]_vars

\* C6 witness: select is held (pressed again this tick) and raises nothing,
\* while up has just been pressed and raises its event.
C6_Witness ==
    /\ pins.sel = Pressed /\ ~events.sel
    /\ pins.up = Pressed /\ events.up
    /\ pins.down = Released /\ ~events.down
    /\ state = "AMOUNT"

\* C7: the back event is raised on exactly the ticks whose sample of the
\* back pin is pressed, whatever the previous sample was.
C7_BackIsLevel ==
    [][ events'.back <=> pins'.back = Pressed ]_vars

\* C7 witness: a back event raised from a pressed pin, after the amount
\* was changed (so AMOUNT was visited) and with the node back in SPICE.
C7_Witness ==
    /\ events.back /\ pins.back = Pressed
    /\ state = "SPICE" /\ target_g # InitialTarget

\* C8 as claimed: with a back event, whatever else is raised, a tick that
\* starts in AMOUNT ends in SPICE, one that starts in SPICE ends in HOME,
\* and one that starts in HOME and raises no select ends in HOME.
C8_BackGoesToParent ==
    [][ events'.back =>
            /\ state = "AMOUNT" => state' = "SPICE"
            /\ state = "SPICE" => state' = "HOME"
            /\ (state = "HOME" /\ ~events'.sel) => state' = "HOME" ]_vars

\* C9: in DISPENSING a back event shows the cancellation notice and ends
\* the tick in HOME; up, down and select change neither the selection nor
\* the state (which only a back event or the completion leaves); no tick in
\* DISPENSING sends anything.
C9_DispensingIgnoresInput ==
    [][ state = "DISPENSING" =>
            /\ sent' = <<>>
            /\ spice_idx' = spice_idx /\ target_g' = target_g
            /\ events'.back => (state' = "HOME" /\ CuedNext("flash_canceled"))
            /\ (~events'.back /\ ~CuedNext("finish")) => state' = "DISPENSING" ]_vars

\* C9 witness: up, down and select all raised in a tick that stayed in
\* DISPENSING.
C9_Witness ==
    /\ state = "DISPENSING" /\ dispense_done_counter > 0
    /\ events.up /\ events.down /\ events.sel /\ ~events.back

-----------------------------------------------------------------------------
(* Claims about the motor node. *)

WellFormedId(p) == p.suffix = "id" /\ p.ok /\ p.dec = 0

LastTargetOrZero == IF last_target = None THEN 0 ELSE last_target[1]
WellFormedTarget(p) == p.suffix = "target" /\ p.ok
\* A pending command payload that is not a command: another suffix, or a
\* number text that float() (target) or int() (id) rejects.
MalformedCommand(p) ==
    /\ p # NoMsg
    /\ \/ p.suffix \notin {"target", "id"}
       \/ ~p.ok
       \/ p.suffix = "id" /\ p.dec # 0

\* C11 as claimed: a decoded target only overwrites the pending target
\* weight and starts nothing; a decoded id starts one sequence in the same
\* iteration, whose slot is the received id and whose target is the target
\* most recently decoded (0.0 if none).
C11_SequenceSlotIsReceivedId ==
    [][ m_pc = "poll" =>
            /\ WellFormedTarget(m_rx') =>
                    /\ target_weight' = m_rx'.mant * Pow10(4 - m_rx'.dec)
                    /\ m_pc' = "telemetry" /\ running' = running
                    /\ s1_steps' = 0
                    /\ UNCHANGED <<spice_id, current_slot>>
            /\ WellFormedId(m_rx') =>
                    /\ m_pc' = "loop" /\ running' = running + 1
                    /\ sp_id' = m_rx'.mant
                    /\ tar_wt' = LastTargetOrZero ]_vars

\* C11 amended: the same, with the slot of the sequence being the received
\* id reduced modulo 12 (the id itself when it is in [0, 12)).
C11_SequenceSlotIsIdModTwelve ==
    [][ m_pc = "poll" =>
            /\ WellFormedTarget(m_rx') =>
                    /\ target_weight' = m_rx'.mant * Pow10(4 - m_rx'.dec)
                    /\ m_pc' = "telemetry" /\ running' = running
                    /\ s1_steps' = 0
                    /\ UNCHANGED <<spice_id, current_slot>>
            /\ WellFormedId(m_rx') =>
                    /\ m_pc' = "loop" /\ running' = running + 1
                    /\ sp_id' \in 0..11 /\ (sp_id' - m_rx'.mant) % 12 = 0
                    /\ spice_id' = m_rx'.mant
                    /\ tar_wt' = LastTargetOrZero ]_vars

\* C11 witness: "14id" has started a sequence for slot 2 with the target
\* 2.5 received before it.
C11_Witness ==
    /\ m_pc = "loop" /\ m_rx = Payload(14, 0, "id")
    /\ sp_id = 2 /\ tar_wt = 25000 /\ last_target = <<25000>>

\* C12 as claimed: a sequence started by an id with no target ever
\* received runs with target 0.0 and its loop exits at once, without an
\* actuator advance, whatever the load cell reads.
C12_ZeroTargetNeverAdvances ==
    [][ /\ (m_pc = "poll" /\ last_target = None /\ WellFormedId(m_rx')) =>
                (m_pc' = "loop" /\ tar_wt' = 0)
        /\ (m_pc = "loop" /\ last_target = None) =>
                (s2_turns' = 0 /\ m_pc' = "telemetry") ]_vars

\* C12 amended: such a sequence runs with target 0.0; its loop exits at
\* once without an advance when the first reading is at least 0.0, and
\* advances the actuator after every reading below 0.0.
C12_ZeroTargetAdvancesOnNegative ==
    [][ /\ (m_pc = "poll" /\ last_target = None /\ WellFormedId(m_rx')) =>
                (m_pc' = "loop" /\ tar_wt' = 0)
        /\ (m_pc = "loop" /\ last_target = None /\ weight_g_local >= 0) =>
                (s2_turns' = 0 /\ m_pc' = "telemetry")
        /\ (m_pc = "loop" /\ last_target = None /\ weight_g_local < 0) =>
                (s2_turns' = 1 /\ m_pc' = "loop") ]_vars

\* C12 witness: the actuator has advanced in a sequence whose target is
\* 0.0, no target having been received.
C12_Witness ==
    /\ m_pc = "loop" /\ last_target = None /\ tar_wt = 0
    /\ s2_turns = 1 /\ weight_g_local = 0

\* C15: a malformed command payload changes neither the pending target
\* weight, nor the pending spice id, nor current_slot, starts no sequence
\* and moves nothing, and the iteration goes on to its telemetry.
C15_MalformedCommandDiscarded ==
    [][ (m_pc = "poll" /\ MalformedCommand(m_rx')) =>
            /\ UNCHANGED <<target_weight, spice_id, current_slot>>
            /\ m_pc' = "telemetry" /\ running' = running
            /\ s1_steps' = 0 /\ s2_turns' = 0 ]_vars

\* C15 witness: "3.00id" was discarded while a target of 5.0 and slot 11
\* were held.
C15_Witness ==
    /\ m_pc = "telemetry" /\ m_rx = Payload(300, 2, "id")
    /\ target_weight = 50000 /\ current_slot = 11 /\ spice_id = 11

\* C16: for an id in [0, 12) the carousel is given (id - current_slot)
\* slots of steps, signed (none when they are equal), and current_slot
\* becomes the id; current_slot is in [0, 12) in every state.
C16_PlainDifferenceMove ==
    /\ [][ (m_pc = "poll" /\ WellFormedId(m_rx') /\ m_rx'.mant \in 0..11) =>
                /\ s1_steps' = (m_rx'.mant - current_slot) * 128
                /\ current_slot' = m_rx'.mant ]_vars
    /\ [](current_slot \in 0..11)

\* C16 witness: the long way back, eleven slots from slot 11 to slot 0.
C16_Witness ==
    /\ m_rx = Payload(0, 0, "id") /\ current_slot = 0
    /\ s1_steps = 0 - 11 * 128

C19_NetRotationIsCurrentSlot ==
    /\ s1_net = current_slot * 128
    /\ s1_net >= 0 /\ s1_net <= 11 * 128

\* C19 witness: "14id" has moved the carousel back nine slots, from 11 to 2.
C19_Witness ==
    /\ m_rx = Payload(14, 0, "id") /\ s1_steps = 0 - 9 * 128
    /\ current_slot = 2 /\ s1_net = 2 * 128

-----------------------------------------------------------------------------
(* Further claims about the UI node. *)

\* A pending telemetry payload that is no telemetry: another suffix, or a
\* number text that float() rejects.
MalformedTelemetry(p) ==
    /\ p # NoMsg
    /\ (p.suffix \notin {"weight", "dist", "hum"} \/ ~p.ok)

\* C13: a tick whose poll returns a malformed payload leaves weight,
\* distance and humidity as they were and handles the buttons as any tick
\* does: the events follow the pins, and a select moves on from HOME and
\* from SPICE.
C13_MalformedTelemetryIgnored ==
    [][ MalformedTelemetry(rx') =>
            /\ UNCHANGED <<current_weight_g, current_distance_cm, current_humidity>>
            /\ events'.sel <=> (pins.sel = Released /\ pins'.sel = Pressed)
            /\ events'.back <=> pins'.back = Pressed
            /\ (HandledIn("HOME") /\ events'.sel) => state' = "SPICE"
            /\ (HandledIn("SPICE") /\ events'.sel) => state' = "AMOUNT" ]_vars

\* C13 witness: "abcweight" arrived on the tick whose select moved on to
\* AMOUNT, with a weight, a distance and a humidity already received.
C13_Witness ==
    /\ rx = BadPayload("weight") /\ events.sel /\ ~events.back
    /\ state = "AMOUNT" /\ dispense_target_g = 0
    /\ current_weight_g = 12345 /\ current_distance_cm = 50000
    /\ current_humidity = <<552300>>

\* C18 as claimed: a DISPENSING tick with a back event cancels (notice,
\* state HOME) and performs no completion feedback.
C18_CancelExcludesCompletion ==
    [][ (state = "DISPENSING" /\ events'.back) =>
            /\ CuedNext("flash_canceled") /\ state' = "HOME"
            /\ ~CuedNext("finish") ]_vars

-----------------------------------------------------------------------------
(* Claims about the two nodes together. *)

IsPrefix(p, q) == Len(p) <= Len(q) /\ SubSeq(q, 1, Len(p)) = p

\* C14: at most one dispense sequence is running at any time; while one
\* is running no step polls the link or changes the pending command, and
\* commands that arrive stay on the link until it has ended.
C14_OneSequenceAtATime ==
    /\ [](running \in {0, 1} /\ (running = 1 <=> m_pc = "loop"))
    /\ [][ m_pc = "loop" =>
                /\ UNCHANGED <<m_rx, target_weight, spice_id, current_slot>>
                /\ IsPrefix(to_motor, to_motor')
                /\ running' <= running ]_vars

\* C14 witness: a whole new request is waiting on the link while the
\* sequence of an earlier one is still advancing the actuator.
C14_Witness ==
    /\ m_pc = "loop" /\ s2_turns = 1 /\ running = 1
    /\ Len(to_motor) = 2 /\ to_motor[2].suffix = "id"

\* A step of the UI node (every tick but one that changes nothing).
UITicked == ui_vars' # ui_vars

\* C20 as claimed: when the UI node completes a dispense, the motor node
\* has received the id of that request and the sequence it started for it
\* has ended.
C20_CompleteOnlyAfterSequenceEnded ==
    [][ (UITicked /\ CuedNext("finish")) => req_seq = "ended" ]_vars

\* C20 amended: the UI node completes a dispense on its own telemetry
\* alone, on the twentieth consecutive tick whose last received weight is
\* at least target - 0.1, and that tick neither consults nor changes the
\* motor node or the link: the id may have been lost, or the sequence may
\* still be running.
C20_CompleteOnTelemetryAlone ==
    [][ UITicked =>
            /\ CuedNext("finish") <=>
                    /\ state = "DISPENSING" /\ dispense_done_counter = 19
                    /\ current_weight_g' >= dispense_target_g - FIX \div 10
            /\ CuedNext("finish") =>
                    /\ state' = "HOME" /\ sent' = <<>>
                    /\ UNCHANGED <<m_pc, running, to_motor, id_pos, req_seq>> ]_vars

\* C20 witness: the UI node has completed while the sequence of that
\* request is still running on the motor node.
C20_Witness ==
    /\ Cued("finish") /\ state = "HOME"
    /\ req_seq = "running" /\ m_pc = "loop" /\ weight_g_local < tar_wt

=============================================================================
